---------------------------- MODULE Spec2Model ----------------------------
(***************************************************************************)
(* Model of crates/ra_hir_def/src/type_ref.rs: the lowering of type syntax *)
(* nodes (ast::TypeRef, ast::TypeBound) to the unresolved type IR          *)
(* (TypeRef, TypeBound, Mutability) and the pre-order traversal `walk`.    *)
(*                                                                         *)
(* Option<T> is modelled as a sequence of length at most one:              *)
(* None is << >> and Some(x) is <<x>>.  Vec<T> and iterators are           *)
(* sequences.  Enum values are records with a discriminating field.        *)
(***************************************************************************)
EXTENDS Integers, Sequences, FiniteSets, TLC

VARIABLES call, ret, visited, pc

vars == <<call, ret, visited, pc>>

None == << >>
Some(x) == <<x>>

(***************************************************************************)
(* Bounds of the model.                                                    *)
(***************************************************************************)
\* longest list (tuple fields, fn params, bounds, segments, args, bindings)
MaxLen == 2
\* layers of composite nodes wrapped around the innermost node
MaxDepth == 2

SeqsUpTo(S, n) == UNION {[1..k -> S] : k \in 0..n}
SeqsFromTo(S, m, n) == UNION {[1..k -> S] : k \in m..n}
Option(S) == {None} \cup {Some(x) : x \in S}

(***************************************************************************)
(* Mutability                                                              *)
(***************************************************************************)
Shared == "Shared"
Mut == "Mut"

from_mutable(mutable) == IF mutable THEN Mut ELSE Shared

(***************************************************************************)
(* enum TypeRef, enum TypeBound                                            *)
(***************************************************************************)
Never == [tag |-> "Never"]
Placeholder == [tag |-> "Placeholder"]
Tuple(types) == [tag |-> "Tuple", types |-> types]
PathT(path) == [tag |-> "Path", path |-> path]
RawPtr(type_ref, mutability) ==
    [tag |-> "RawPtr", type_ref |-> type_ref, mutability |-> mutability]
Reference(type_ref, mutability) ==
    [tag |-> "Reference", type_ref |-> type_ref, mutability |-> mutability]
Array(type_ref) == [tag |-> "Array", type_ref |-> type_ref]
Slice(type_ref) == [tag |-> "Slice", type_ref |-> type_ref]
Fn(types) == [tag |-> "Fn", types |-> types]
ImplTrait(bounds) == [tag |-> "ImplTrait", bounds |-> bounds]
DynTrait(bounds) == [tag |-> "DynTrait", bounds |-> bounds]
Error == [tag |-> "Error"]

BoundPath(path) == [bound |-> "Path", path |-> path]
BoundError == [bound |-> "Error"]

(***************************************************************************)
(* crate::path::Path, as far as this file reads it: an optional type       *)
(* anchor, and segments whose optional args_and_bindings hold type         *)
(* arguments and (name, type) associated-type bindings.                    *)
(***************************************************************************)
MkSegment(name, args_and_bindings) ==
    [name |-> name, args_and_bindings |-> args_and_bindings]
MkArgs(args, bindings) == [args |-> args, bindings |-> bindings]
MkPath(type_anchor, segments) ==
    [type_anchor |-> type_anchor, segments |-> segments]

\* A syntax path node: its text and whether Path::from_ast can lower it.
AstPath(name, well_formed) == [name |-> name, well_formed |-> well_formed]

\* Path::from_ast: Some(path) for a well-formed path node, else None.
Path_from_ast(path) ==
    IF path.well_formed
    THEN Some(MkPath(None, <<MkSegment(path.name, None)>>))
    ELSE None

(***************************************************************************)
(* Syntax nodes: ast::TypeRef and ast::TypeBound with their accessors.     *)
(***************************************************************************)
ParenType(type_ref) == [kind |-> "ParenType", type_ref |-> type_ref]
TupleType(fields) == [kind |-> "TupleType", fields |-> fields]
NeverType == [kind |-> "NeverType"]
PathType(path) == [kind |-> "PathType", path |-> path]
PointerType(type_ref, mut_token) ==
    [kind |-> "PointerType", type_ref |-> type_ref, mut_token |-> mut_token]
ArrayType(type_ref) == [kind |-> "ArrayType", type_ref |-> type_ref]
SliceType(type_ref) == [kind |-> "SliceType", type_ref |-> type_ref]
ReferenceType(type_ref, mut_token) ==
    [kind |-> "ReferenceType", type_ref |-> type_ref, mut_token |-> mut_token]
PlaceholderType == [kind |-> "PlaceholderType"]
FnPointerType(ret_type, param_list) ==
    [kind |-> "FnPointerType", ret_type |-> ret_type, param_list |-> param_list]
ForType(type_ref) == [kind |-> "ForType", type_ref |-> type_ref]
ImplTraitType(type_bound_list) ==
    [kind |-> "ImplTraitType", type_bound_list |-> type_bound_list]
DynTraitType(type_bound_list) ==
    [kind |-> "DynTraitType", type_bound_list |-> type_bound_list]

RetType(type_ref) == [type_ref |-> type_ref]
Param(ascribed_type) == [ascribed_type |-> ascribed_type]
ParamList(params) == [params |-> params]
TypeBoundList(bounds) == [bounds |-> bounds]

\* ast::TypeBound, by what kind() returns
PathTypeBound(path) == [kind |-> "PathType", path |-> path]
ForTypeBound(for_type) == [kind |-> "ForType", for_type |-> for_type]
LifetimeBound(lifetime) == [kind |-> "Lifetime", lifetime |-> lifetime]


(***************************************************************************)
(* Lowering: TypeRef::from_ast, one operator per match arm.                *)
(***************************************************************************)
RECURSIVE from_ast(_)

\* mutant: an absent node lowers to the unit type instead of Error
from_ast_opt_unit(node) ==
    IF node # None THEN from_ast(node[1]) ELSE Tuple(<< >>)

from_ast_opt(node) ==
    IF node # None THEN from_ast(node[1]) ELSE Error

unit == Tuple(<< >>)

\* mutant: a `for` bound is lowered through its inner path type
TypeBound_from_ast_for(node) ==
    LET path_of(p) ==
            IF p = None THEN BoundError
            ELSE LET path == Path_from_ast(p[1])
                 IN  IF path = None THEN BoundError ELSE BoundPath(path[1])
    IN  CASE node.kind = "PathType" -> path_of(node.path)
          [] node.kind = "ForType" ->
               IF node.for_type.type_ref # None
                  /\ node.for_type.type_ref[1].kind = "PathType"
               THEN path_of(node.for_type.type_ref[1].path)
               ELSE BoundError
          [] node.kind = "Lifetime" -> BoundError

TypeBound_from_ast(node) ==
    CASE node.kind = "PathType" ->
           IF node.path = None THEN BoundError
           ELSE LET path == Path_from_ast(node.path[1])
                IN  IF path = None THEN BoundError ELSE BoundPath(path[1])
      [] node.kind \in {"ForType", "Lifetime"} -> BoundError

type_bounds_from_ast(type_bounds_opt) ==
    IF type_bounds_opt # None
    THEN LET bounds == type_bounds_opt[1].bounds
         IN  [i \in 1..Len(bounds) |-> TypeBound_from_ast(bounds[i])]
    ELSE << >>

ParenTypeArm(inner) == from_ast_opt(inner.type_ref)

\* mutant: a one-field tuple is unwrapped like a parenthesized type
TupleTypeArm_unwrap_single(inner) ==
    IF Len(inner.fields) = 1 THEN from_ast(inner.fields[1])
    ELSE Tuple([i \in 1..Len(inner.fields) |-> from_ast(inner.fields[i])])

TupleTypeArm(inner) ==
    Tuple([i \in 1..Len(inner.fields) |-> from_ast(inner.fields[i])])

\* mutant: a path that cannot be lowered becomes Placeholder, not Error
PathTypeArm_placeholder(inner) ==
    LET path == IF inner.path = None THEN None
                ELSE Path_from_ast(inner.path[1])
    IN  IF path = None THEN Placeholder ELSE PathT(path[1])

PathTypeArm(inner) ==
    LET path == IF inner.path = None THEN None
                ELSE Path_from_ast(inner.path[1])
    IN  IF path = None THEN Error ELSE PathT(path[1])

\* mutant: an Error pointee makes the whole pointer type Error
PointerTypeArm_propagate(inner) ==
    LET inner_ty == from_ast_opt(inner.type_ref)
        mutability == from_mutable(inner.mut_token # None)
    IN  IF inner_ty = Error THEN Error ELSE RawPtr(inner_ty, mutability)

PointerTypeArm(inner) ==
    LET inner_ty == from_ast_opt(inner.type_ref)
        mutability == from_mutable(inner.mut_token # None)
    IN  RawPtr(inner_ty, mutability)

ArrayTypeArm(inner) == Array(from_ast_opt(inner.type_ref))

SliceTypeArm(inner) == Slice(from_ast_opt(inner.type_ref))

ReferenceTypeArm(inner) ==
    LET inner_ty == from_ast_opt(inner.type_ref)
        mutability == from_mutable(inner.mut_token # None)
    IN  Reference(inner_ty, mutability)

\* mutant: parameters without an ascribed type are skipped (filter_map)
FnPointerTypeArm_skip_untyped(inner) ==
    LET rt == IF inner.ret_type = None THEN None
              ELSE inner.ret_type[1].type_ref
        ret_ty == IF rt = None THEN Tuple(<< >>) ELSE from_ast(rt[1])
        ps == IF inner.param_list # None
              THEN SelectSeq(inner.param_list[1].params,
                             LAMBDA p : p.ascribed_type # None)
              ELSE << >>
        params == [i \in 1..Len(ps) |-> from_ast_opt(ps[i].ascribed_type)]
    IN  Fn(Append(params, ret_ty))

\* mutant: a return type node without a type lowers through from_ast_opt
FnPointerTypeArm_ret_opt(inner) ==
    LET ret_ty == IF inner.ret_type = None THEN Tuple(<< >>)
                  ELSE from_ast_opt(inner.ret_type[1].type_ref)
        params == IF inner.param_list # None
                  THEN LET ps == inner.param_list[1].params
                       IN  [i \in 1..Len(ps) |->
                                from_ast_opt(ps[i].ascribed_type)]
                  ELSE << >>
    IN  Fn(Append(params, ret_ty))

FnPointerTypeArm(inner) ==
    LET rt == IF inner.ret_type = None THEN None
              ELSE inner.ret_type[1].type_ref
        ret_ty == IF rt = None THEN Tuple(<< >>) ELSE from_ast(rt[1])
        params == IF inner.param_list # None
                  THEN LET ps == inner.param_list[1].params
                       IN  [i \in 1..Len(ps) |->
                                from_ast_opt(ps[i].ascribed_type)]
                  ELSE << >>
    IN  Fn(Append(params, ret_ty))

\* mutant: `for` types are unsupported, like `for` bounds
ForTypeArm_error(inner) == Error

ForTypeArm(inner) == from_ast_opt(inner.type_ref)

ImplTraitTypeArm(inner) ==
    ImplTrait(type_bounds_from_ast(inner.type_bound_list))

DynTraitTypeArm(inner) ==
    DynTrait(type_bounds_from_ast(inner.type_bound_list))

from_ast(node) ==
    CASE node.kind = "ParenType" -> ParenTypeArm(node)
      [] node.kind = "TupleType" -> TupleTypeArm(node)
      [] node.kind = "NeverType" -> Never
      [] node.kind = "PathType" -> PathTypeArm(node)
      [] node.kind = "PointerType" -> PointerTypeArm(node)
      [] node.kind = "ArrayType" -> ArrayTypeArm(node)
      [] node.kind = "SliceType" -> SliceTypeArm(node)
      [] node.kind = "ReferenceType" -> ReferenceTypeArm(node)
      [] node.kind = "PlaceholderType" -> Placeholder
      [] node.kind = "FnPointerType" -> FnPointerTypeArm(node)
      [] node.kind = "ForType" -> ForTypeArm(node)
      [] node.kind = "ImplTraitType" -> ImplTraitTypeArm(node)
      [] node.kind = "DynTraitType" -> DynTraitTypeArm(node)

(***************************************************************************)
(* The syntax nodes the lowering is run on.  AstFlat holds every node of   *)
(* every kind whose sub-nodes are absent or leaves, with lists of up to    *)
(* MaxLen elements; AstNested(d) wraps d layers of composite nodes (lists  *)
(* of up to two elements) around a leaf or a small composite node.         *)
(***************************************************************************)
PathNodes == {AstPath("A", TRUE), AstPath("B", TRUE), AstPath("A", FALSE)}

AstLeaves ==
    {NeverType, PlaceholderType} \cup {PathType(p) : p \in Option(PathNodes)}

AstBounds ==
    {PathTypeBound(p) : p \in Option(PathNodes)}
    \cup {ForTypeBound(ForType(t)) :
            t \in {None, Some(PathType(Some(AstPath("A", TRUE))))}}
    \cup {LifetimeBound("'a")}

AstBoundLists == Option({TypeBoundList(bs) : bs \in SeqsUpTo(AstBounds, MaxLen)})

MutTokens == {None, Some("mut")}

AstUnary(S) ==
    {ParenType(t) : t \in S} \cup {ForType(t) : t \in S}
    \cup {ArrayType(t) : t \in S} \cup {SliceType(t) : t \in S}
    \cup {PointerType(t, m) : t \in S, m \in MutTokens}
    \cup {ReferenceType(t, m) : t \in S, m \in MutTokens}

AstFlat ==
    AstUnary(Option(AstLeaves))
    \cup {TupleType(fs) : fs \in SeqsUpTo(AstLeaves, MaxLen)}
    \cup {FnPointerType(r, pl) :
            r \in Option({RetType(t) : t \in Option(AstLeaves)}),
            pl \in Option({ParamList(ps) :
                     ps \in SeqsUpTo({Param(t) : t \in Option(AstLeaves)},
                                     MaxLen)})}
    \cup {ImplTraitType(l) : l \in AstBoundLists}
    \cup {DynTraitType(l) : l \in AstBoundLists}

AstWrap(t) ==
    AstUnary({Some(t)})
    \cup {TupleType(<<t>>), TupleType(<<NeverType, t>>),
          TupleType(<<t, PathType(None)>>),
          FnPointerType(None, Some(ParamList(<<Param(Some(t))>>))),
          FnPointerType(Some(RetType(Some(t))), None),
          FnPointerType(Some(RetType(Some(t))),
                        Some(ParamList(<<Param(None), Param(Some(t))>>)))}

RECURSIVE AstNested(_)
AstNested(d) ==
    IF d = 0
    THEN AstLeaves
         \cup {DynTraitType(Some(TypeBoundList(
                   <<PathTypeBound(Some(AstPath("A", TRUE)))>>))),
               TupleType(<<NeverType, PathType(Some(AstPath("B", TRUE)))>>)}
    ELSE UNION {AstWrap(t) : t \in AstNested(d - 1)}

AstNodes == AstFlat \cup UNION {AstNested(d) : d \in 0..MaxDepth}

LowerCalls ==
    {[op |-> "from_ast_opt", arg |-> n] : n \in Option(AstNodes)}
    \cup {[op |-> "type_bounds_from_ast", arg |-> l] : l \in AstBoundLists}
    \cup {[op |-> "TypeBound::from_ast", arg |-> b] : b \in AstBounds}

(***************************************************************************)
(* The state machine: a caller has made `call`; the operation runs to its  *)
(* return value `ret` (None until it returns).  `visited` is what the      *)
(* callback handed to walk has been called with, in call order.            *)
(***************************************************************************)
Init ==
    /\ call \in LowerCalls
    /\ ret = None
    /\ visited = << >>
    /\ pc = "called"

FromAstOpt ==
    /\ pc = "called"
    /\ call.op = "from_ast_opt"
    /\ ret' = Some(from_ast_opt(call.arg))
    /\ pc' = "returned"
    /\ UNCHANGED <<call, visited>>

TypeBoundsFromAst ==
    /\ pc = "called"
    /\ call.op = "type_bounds_from_ast"
    /\ ret' = Some(type_bounds_from_ast(call.arg))
    /\ pc' = "returned"
    /\ UNCHANGED <<call, visited>>

TypeBoundFromAst ==
    /\ pc = "called"
    /\ call.op = "TypeBound::from_ast"
    /\ ret' = Some(TypeBound_from_ast(call.arg))
    /\ pc' = "returned"
    /\ UNCHANGED <<call, visited>>

Next == FromAstOpt \/ TypeBoundsFromAst \/ TypeBoundFromAst

Spec == Init /\ [][Next]_vars

(***************************************************************************)
(* Traversal: TypeRef::walk with its inner functions go and go_path.       *)
(* The callback receives a reference to a node of the tree; the model      *)
(* hands it the node and the access path `at` that leads from the root to  *)
(* it (the reference's identity), a sequence of [field, index] steps.      *)
(* go and go_path return the callback invocations they make, in order.     *)
(***************************************************************************)
Step(field, index) == [field |-> field, index |-> index]

f(type_ref, at) == <<[at |-> at, type_ref |-> type_ref]>>

RECURSIVE Flatten(_)
Flatten(seqs) ==
    IF seqs = << >> THEN << >> ELSE Head(seqs) \o Flatten(Tail(seqs))

RECURSIVE go(_, _)
RECURSIVE go_path(_, _)

\* mutant: associated-type bindings are not followed
go_segment_no_bindings(segment, at) ==
    IF segment.args_and_bindings # None
    THEN LET args == segment.args_and_bindings[1].args
         IN  Flatten([i \in 1..Len(args) |->
                         go(args[i], Append(at, Step("args", i)))])
    ELSE << >>

go_segment(segment, at) ==
    IF segment.args_and_bindings # None
    THEN LET args_and_bindings == segment.args_and_bindings[1]
             args == args_and_bindings.args
             bindings == args_and_bindings.bindings
         IN  Flatten([i \in 1..Len(args) |->
                         go(args[i], Append(at, Step("args", i)))])
             \o Flatten([i \in 1..Len(bindings) |->
                         go(bindings[i][2], Append(at, Step("bindings", i)))])
    ELSE << >>

\* mutant: the type anchor is visited after the segments
go_path_anchor_last(path, at) ==
    Flatten([s \in 1..Len(path.segments) |->
                go_segment(path.segments[s], Append(at, Step("segments", s)))])
    \o (IF path.type_anchor # None
        THEN go(path.type_anchor[1], Append(at, Step("type_anchor", 0)))
        ELSE << >>)

go_path(path, at) ==
    (IF path.type_anchor # None
     THEN go(path.type_anchor[1], Append(at, Step("type_anchor", 0)))
     ELSE << >>)
    \o Flatten([s \in 1..Len(path.segments) |->
                   go_segment(path.segments[s], Append(at, Step("segments", s)))])

go_bounds(bounds, at) ==
    Flatten([i \in 1..Len(bounds) |->
                CASE bounds[i].bound = "Path" ->
                       go_path(bounds[i].path, Append(at, Step("bounds", i)))
                  [] bounds[i].bound = "Error" -> << >>])

go(type_ref, at) ==
    f(type_ref, at)
    \o CASE type_ref.tag \in {"Fn", "Tuple"} ->
              Flatten([i \in 1..Len(type_ref.types) |->
                          go(type_ref.types[i], Append(at, Step("types", i)))])
         [] type_ref.tag \in {"RawPtr", "Reference", "Array", "Slice"} ->
              go(type_ref.type_ref, Append(at, Step("type_ref", 0)))
         [] type_ref.tag \in {"ImplTrait", "DynTrait"} ->
              go_bounds(type_ref.bounds, at)
         [] type_ref.tag = "Path" ->
              go_path(type_ref.path, Append(at, Step("path", 0)))
         [] type_ref.tag \in {"Never", "Placeholder", "Error"} -> << >>

walk(self) == go(self, << >>)

(***************************************************************************)
(* The trees walk is run on.  TypeRefFlat holds every kind of node over    *)
(* leaves, with paths of every shape (anchor, up to MaxLen segments, up to *)
(* MaxLen arguments and bindings each); TypeRefNested(d) wraps d layers of *)
(* composite nodes around a leaf.                                          *)
(***************************************************************************)
TypeRefLeaves == {Never, Placeholder, Error}

SimplePath(name) == MkPath(None, <<MkSegment(name, None)>>)

Segments ==
    {MkSegment("S", ab) :
        ab \in Option({MkArgs(as, bs) :
                 as \in SeqsUpTo({Never}, MaxLen),
                 bs \in SeqsUpTo({<<"Item", Placeholder>>}, MaxLen)})}

FlatPaths ==
    {MkPath(a, segs) : a \in Option({Error, Tuple(<<Never>>)}),
                       segs \in SeqsFromTo(Segments, 1, MaxLen)}

BoundSample ==
    {BoundError, BoundPath(SimplePath("T")),
     BoundPath(MkPath(Some(Never),
         <<MkSegment("U", Some(MkArgs(<<Never>>, <<<<"Item", Placeholder>>>>)))>>))}

TypeRefUnary(S) ==
    {RawPtr(t, m) : t \in S, m \in {Shared, Mut}}
    \cup {Reference(t, m) : t \in S, m \in {Shared, Mut}}
    \cup {Array(t) : t \in S} \cup {Slice(t) : t \in S}

TypeRefFlat ==
    TypeRefUnary(TypeRefLeaves)
    \cup {Tuple(ts) : ts \in SeqsUpTo(TypeRefLeaves, MaxLen)}
    \cup {Fn(ts) : ts \in SeqsUpTo(TypeRefLeaves, MaxLen)}
    \cup {PathT(p) : p \in FlatPaths}
    \cup {ImplTrait(bs) : bs \in SeqsUpTo(BoundSample, MaxLen)}
    \cup {DynTrait(bs) : bs \in SeqsUpTo(BoundSample, MaxLen)}

TypeRefWrap(t) ==
    {RawPtr(t, Shared), Reference(t, Mut), Array(t), Slice(t),
     Tuple(<<t>>), Tuple(<<Never, t>>), Fn(<<t, Tuple(<< >>)>>),
     Fn(<<Error, t>>),
     PathT(MkPath(Some(t), <<MkSegment("S", None)>>)),
     PathT(MkPath(None, <<MkSegment("S", Some(MkArgs(<<t>>, << >>)))>>)),
     PathT(MkPath(Some(Never),
         <<MkSegment("S", None),
           MkSegment("U", Some(MkArgs(<<Never>>, <<<<"Item", t>>>>)))>>)),
     ImplTrait(<<BoundError,
                 BoundPath(MkPath(Some(t),
                     <<MkSegment("S", Some(MkArgs(<<Never>>, << >>)))>>))>>),
     DynTrait(<<BoundPath(MkPath(None,
                    <<MkSegment("S", Some(MkArgs(<<t, Never>>, << >>)))>>)),
                BoundPath(SimplePath("T"))>>)}

RECURSIVE TypeRefNested(_)
TypeRefNested(d) ==
    IF d = 0
    THEN TypeRefLeaves \cup {PathT(SimplePath("T"))}
    ELSE UNION {TypeRefWrap(t) : t \in TypeRefNested(d - 1)}

WalkCalls ==
    {[op |-> "walk", arg |-> t] :
        t \in TypeRefFlat \cup UNION {TypeRefNested(d) : d \in 0..MaxDepth}}

InitWalk ==
    /\ call \in WalkCalls
    /\ ret = None
    /\ visited = << >>
    /\ pc = "called"

\* walk returns (), modelled as the empty tuple
Walk ==
    /\ pc = "called"
    /\ call.op = "walk"
    /\ visited' = visited \o walk(call.arg)
    /\ ret' = Some(<< >>)
    /\ pc' = "returned"
    /\ UNCHANGED call

NextWalk == Walk

SpecWalk == InitWalk /\ [][NextWalk]_vars

(***************************************************************************)
(* Properties of the lowering (checked under Spec).                        *)
(***************************************************************************)
Lowered == pc = "returned" /\ call.op = "from_ast_opt"
LoweredNode == Lowered /\ call.arg # None

\* Well-formed values of the IR: what the enums TypeRef, TypeBound and the
\* Path structure admit.
RECURSIVE IsTypeRef(_)
IsPath(p) ==
    /\ DOMAIN p = {"type_anchor", "segments"}
    /\ p.type_anchor = None
       \/ (Len(p.type_anchor) = 1 /\ IsTypeRef(p.type_anchor[1]))
    /\ \A s \in 1..Len(p.segments) :
          LET ab == p.segments[s].args_and_bindings
          IN  ab = None
              \/ /\ \A i \in 1..Len(ab[1].args) : IsTypeRef(ab[1].args[i])
                 /\ \A i \in 1..Len(ab[1].bindings) :
                       IsTypeRef(ab[1].bindings[i][2])

IsTypeBound(b) ==
    CASE b.bound = "Path" -> DOMAIN b = {"bound", "path"} /\ IsPath(b.path)
      [] b.bound = "Error" -> b = BoundError
      [] OTHER -> FALSE

IsTypeRef(t) ==
    CASE t.tag \in {"Never", "Placeholder", "Error"} -> DOMAIN t = {"tag"}
      [] t.tag \in {"Tuple", "Fn"} ->
           /\ DOMAIN t = {"tag", "types"}
           /\ \A i \in 1..Len(t.types) : IsTypeRef(t.types[i])
      [] t.tag = "Path" -> DOMAIN t = {"tag", "path"} /\ IsPath(t.path)
      [] t.tag \in {"RawPtr", "Reference"} ->
           /\ DOMAIN t = {"tag", "type_ref", "mutability"}
           /\ t.mutability \in {Shared, Mut}
           /\ IsTypeRef(t.type_ref)
      [] t.tag \in {"Array", "Slice"} ->
           DOMAIN t = {"tag", "type_ref"} /\ IsTypeRef(t.type_ref)
      [] t.tag \in {"ImplTrait", "DynTrait"} ->
           /\ DOMAIN t = {"tag", "bounds"}
           /\ \A i \in 1..Len(t.bounds) : IsTypeBound(t.bounds[i])
      [] OTHER -> FALSE

\* Whether the IR tree t holds an Error node at or below its root.
RECURSIVE HasError(_)
HasError(t) ==
    CASE t.tag = "Error" -> TRUE
      [] t.tag \in {"Tuple", "Fn"} ->
           \E i \in 1..Len(t.types) : HasError(t.types[i])
      [] t.tag \in {"RawPtr", "Reference", "Array", "Slice"} ->
           HasError(t.type_ref)
      [] OTHER -> FALSE

\* C1: lowering is total: every call of from_ast_opt, type_bounds_from_ast
\* and TypeBound::from_ast can run and returns a well-formed value (a
\* TypeRef, a list of TypeBounds, a TypeBound) and the machine is never in a
\* state other than "called" or "returned"; from_ast_opt(None) is Error and
\* from_ast_opt(Some(n)) is from_ast(n).
C1_Totality ==
    /\ pc \in {"called", "returned"}
    /\ pc = "called" => ENABLED Next
    /\ pc = "returned" => Len(ret) = 1
    /\ Lowered =>
          /\ IsTypeRef(ret[1])
          /\ call.arg = None => ret[1] = Error
          /\ call.arg # None => ret[1] = from_ast(call.arg[1])
    /\ pc = "returned" /\ call.op = "type_bounds_from_ast" =>
          \A i \in 1..Len(ret[1]) : IsTypeBound(ret[1][i])
    /\ pc = "returned" /\ call.op = "TypeBound::from_ast" =>
          IsTypeBound(ret[1])

\* C1 witness: a pointer to a tuple with a field that cannot be lowered
\* has been lowered to a value holding Error below its root.
C1_Witness ==
    /\ LoweredNode
    /\ call.arg[1].kind = "PointerType"
    /\ call.arg[1].type_ref # None
    /\ call.arg[1].type_ref[1].kind = "TupleType"
    /\ ret[1].tag = "RawPtr"
    /\ HasError(ret[1])

\* The number of parameters a function-pointer node declares.
ParamsOf(n) ==
    IF n.param_list = None THEN << >> ELSE n.param_list[1].params

\* C2: a function-pointer node with k declared parameters lowers to Fn of
\* exactly k + 1 elements; element i is from_ast_opt of the i-th
\* parameter's ascribed type (Error when it has none); the last element is
\* the lowered return type, or Tuple([]) when no return type is declared.
C2_FnArity ==
    LoweredNode /\ call.arg[1].kind = "FnPointerType" =>
        LET n == call.arg[1]
            ps == ParamsOf(n)
            k == Len(ps)
            r == ret[1]
        IN  /\ r.tag = "Fn"
            /\ Len(r.types) = k + 1
            /\ \A i \in 1..k :
                  /\ r.types[i] = from_ast_opt(ps[i].ascribed_type)
                  /\ ps[i].ascribed_type = None => r.types[i] = Error
            /\ n.ret_type = None => r.types[k + 1] = Tuple(<< >>)
            /\ n.ret_type # None /\ n.ret_type[1].type_ref # None =>
                  r.types[k + 1] = from_ast(n.ret_type[1].type_ref[1])

\* C2 witness: two parameters, the first without an ascribed type, no
\* return type: the result has three elements, the first one Error.
C2_Witness ==
    /\ LoweredNode
    /\ call.arg[1].kind = "FnPointerType"
    /\ Len(ParamsOf(call.arg[1])) = 2
    /\ ParamsOf(call.arg[1])[1].ascribed_type = None
    /\ ParamsOf(call.arg[1])[2].ascribed_type # None
    /\ call.arg[1].ret_type = None
    /\ Len(ret[1].types) = 3
    /\ ret[1].types[1] = Error
    /\ ret[1].types[3] = Tuple(<< >>)

\* C5: a tuple node with n fields lowers to Tuple of exactly n elements,
\* the i-th the lowering of the i-th field (n = 0: the unit type; n = 1: a
\* one-element Tuple); type_bounds_from_ast gives one TypeBound per bound,
\* in order, and the empty list for an absent bound list.
C5_ListOrder ==
    /\ LoweredNode /\ call.arg[1].kind = "TupleType" =>
          LET fields == call.arg[1].fields
              r == ret[1]
          IN  /\ r.tag = "Tuple"
              /\ Len(r.types) = Len(fields)
              /\ \A i \in 1..Len(fields) : r.types[i] = from_ast(fields[i])
              /\ Len(fields) = 0 => r = unit
    /\ pc = "returned" /\ call.op = "type_bounds_from_ast" =>
          IF call.arg = None THEN ret[1] = << >>
          ELSE LET bounds == call.arg[1].bounds
               IN  /\ Len(ret[1]) = Len(bounds)
                   /\ \A i \in 1..Len(bounds) :
                         ret[1][i] = TypeBound_from_ast(bounds[i])

\* C5 witness: a tuple of two fields that lower to different types.
C5_Witness ==
    /\ LoweredNode
    /\ call.arg[1].kind = "TupleType"
    /\ Len(call.arg[1].fields) = 2
    /\ Len(ret[1].types) = 2
    /\ ret[1].types[1] # ret[1].types[2]

\* Whether Path::from_ast fails on the path of a path type or path bound.
PathFails(n) == n.path = None \/ Path_from_ast(n.path[1]) = None

\* The node left when the ParenType and ForType wrappers around n are
\* taken off: None when a wrapper holds no type.
RECURSIVE Peel(_)
Peel(n) ==
    IF n.kind \in {"ParenType", "ForType"}
    THEN IF n.type_ref = None THEN None ELSE Peel(n.type_ref[1])
    ELSE Some(n)

\* C6 as stated: a path type node lowers to Error exactly when its path is
\* missing or Path::from_ast returns None, and a present node of any other
\* kind never lowers to Error.
C6_OnlyPathDegrades ==
    LoweredNode =>
        LET n == call.arg[1]
        IN  IF n.kind = "PathType" THEN (ret[1] = Error <=> PathFails(n))
            ELSE ret[1] # Error

\* C6 amended: a path type node lowers to Error exactly when its path is
\* missing or Path::from_ast returns None; a ParenType or ForType node
\* lowers to Error exactly when, under its wrappers, the type is absent or
\* is such a path type; a node of any other kind never lowers to Error.
C6_PathOrWrapperDegrades ==
    LoweredNode =>
        LET n == call.arg[1]
            core == Peel(n)
        IN  /\ n.kind = "PathType" => (ret[1] = Error <=> PathFails(n))
            /\ n.kind \in {"ParenType", "ForType"} =>
                  (ret[1] = Error <=>
                      \/ core = None
                      \/ core[1].kind = "PathType" /\ PathFails(core[1]))
            /\ n.kind \notin {"PathType", "ParenType", "ForType"} =>
                  ret[1] # Error

\* C6 witness: a path type whose path Path::from_ast cannot lower has been
\* lowered to Error.
C6_Witness ==
    /\ LoweredNode
    /\ call.arg[1].kind = "PathType"
    /\ call.arg[1].path # None
    /\ Path_from_ast(call.arg[1].path[1]) = None
    /\ ret = Some(Error)

\* C7: a ParenType or ForType node that holds a type lowers to exactly what
\* that type lowers to, through any number of nested wrappers.
C7_WrappersTransparent ==
    LoweredNode /\ call.arg[1].kind \in {"ParenType", "ForType"} =>
        LET n == call.arg[1]
        IN  /\ n.type_ref # None => ret[1] = from_ast(n.type_ref[1])
            /\ Peel(n) # None => ret[1] = from_ast(Peel(n)[1])

\* C7 witness: two nested wrappers around a composite type.
C7_Witness ==
    /\ LoweredNode
    /\ call.arg[1].kind = "ParenType"
    /\ call.arg[1].type_ref # None
    /\ call.arg[1].type_ref[1].kind = "ForType"
    /\ Peel(call.arg[1]) # None
    /\ ret[1].tag \in {"Tuple", "Fn", "RawPtr", "Reference", "Array", "Slice"}

\* C8: TypeBound::from_ast returns Path(p) exactly when the bound is a path
\* bound whose path is present and Path::from_ast returns Some(p); every
\* other bound (path missing, path lowering failed, `for` bound, lifetime
\* bound) gives Error.
C8_BoundLowering ==
    pc = "returned" /\ call.op = "TypeBound::from_ast" =>
        LET b == call.arg
        IN  IF b.kind = "PathType" /\ ~PathFails(b)
            THEN ret[1] = BoundPath(Path_from_ast(b.path[1])[1])
            ELSE ret[1] = BoundError

\* C8 witness: a `for` bound holding a well-formed path has been lowered
\* to Error.
C8_Witness ==
    /\ pc = "returned"
    /\ call.op = "TypeBound::from_ast"
    /\ call.arg.kind = "ForType"
    /\ call.arg.for_type.type_ref # None
    /\ ret = Some(BoundError)

MutabilityOf(n) == IF n.mut_token # None THEN Mut ELSE Shared

C10_EmptyReturnIsUnit ==
    LoweredNode /\ call.arg[1].kind = "FnPointerType" =>
        LET n == call.arg[1]
            last == ret[1].types[Len(ret[1].types)]
        IN  /\ n.ret_type # None /\ n.ret_type[1].type_ref = None =>
                  last = Tuple(<< >>) /\ last = unit
            /\ last = Error =>
                  /\ n.ret_type # None
                  /\ n.ret_type[1].type_ref # None
                  /\ from_ast(n.ret_type[1].type_ref[1]) = Error

\* C10 witness: `fn() ->` with no type after the arrow has been lowered.
C10_Witness ==
    /\ LoweredNode
    /\ call.arg[1].kind = "FnPointerType"
    /\ call.arg[1].ret_type # None
    /\ call.arg[1].ret_type[1].type_ref = None
    /\ ret[1].types[Len(ret[1].types)] = Tuple(<< >>)

(***************************************************************************)
(* Properties of the traversal (checked under SpecWalk).                   *)
(***************************************************************************)
Walked == pc = "returned" /\ call.op = "walk"

\* The access paths of every TypeRef the tree t owns, t itself included:
\* the ownership relation of the data types, stated without an order.
RECURSIVE Positions(_)
Under(prefix, t) == {prefix \o q : q \in Positions(t)}

PathPositions(p) ==
    (IF p.type_anchor = None THEN {}
     ELSE Under(<<Step("type_anchor", 0)>>, p.type_anchor[1]))
    \cup UNION {
        LET ab == p.segments[s].args_and_bindings
        IN  IF ab = None THEN {}
            ELSE UNION {Under(<<Step("segments", s), Step("args", i)>>,
                              ab[1].args[i]) : i \in 1..Len(ab[1].args)}
                 \cup
                 UNION {Under(<<Step("segments", s), Step("bindings", i)>>,
                              ab[1].bindings[i][2]) :
                            i \in 1..Len(ab[1].bindings)}
        : s \in 1..Len(p.segments)}

Positions(t) ==
    {<< >>} \cup
    CASE t.tag \in {"Tuple", "Fn"} ->
           UNION {Under(<<Step("types", i)>>, t.types[i]) :
                     i \in 1..Len(t.types)}
      [] t.tag \in {"RawPtr", "Reference", "Array", "Slice"} ->
           Under(<<Step("type_ref", 0)>>, t.type_ref)
      [] t.tag = "Path" ->
           {<<Step("path", 0)>> \o q : q \in PathPositions(t.path)}
      [] t.tag \in {"ImplTrait", "DynTrait"} ->
           UNION {IF t.bounds[i].bound = "Path"
                  THEN {<<Step("bounds", i)>> \o q :
                           q \in PathPositions(t.bounds[i].path)}
                  ELSE {} : i \in 1..Len(t.bounds)}
      [] OTHER -> {}

\* What the access path pos leads to from value v: field by field.
RECURSIVE Resolve(_, _)
Resolve(v, pos) ==
    IF pos = << >> THEN v
    ELSE LET s == Head(pos)
             next ==
               CASE s.field = "types" -> v.types[s.index]
                 [] s.field = "type_ref" -> v.type_ref
                 [] s.field = "bounds" -> v.bounds[s.index].path
                 [] s.field = "path" -> v.path
                 [] s.field = "type_anchor" -> v.type_anchor[1]
                 [] s.field = "segments" ->
                      v.segments[s.index].args_and_bindings[1]
                 [] s.field = "args" -> v.args[s.index]
                 [] s.field = "bindings" -> v.bindings[s.index][2]
         IN  Resolve(next, Tail(pos))

IsProperPrefix(p, q) == Len(p) < Len(q) /\ SubSeq(q, 1, Len(p)) = p

\* Declaration order of two sibling steps: the type anchor before the
\* segments, a segment's arguments before its bindings, list elements by
\* index.
FieldRank(field) == IF field \in {"segments", "bindings"} THEN 1 ELSE 0

StepBefore(a, b) ==
    \/ FieldRank(a.field) < FieldRank(b.field)
    \/ FieldRank(a.field) = FieldRank(b.field) /\ a.index < b.index

\* p comes before q: p leads to an owner of q's node, or where the two
\* first part, p takes the earlier step.
DeclaredBefore(p, q) ==
    \/ IsProperPrefix(p, q)
    \/ \E k \in 1..Len(p) :
          /\ k <= Len(q)
          /\ SubSeq(p, 1, k - 1) = SubSeq(q, 1, k - 1)
          /\ p[k] # q[k]
          /\ StepBefore(p[k], q[k])

\* C3: walk calls the callback on the root first and then exactly once on
\* every TypeRef the tree owns (through Path anchors, type arguments,
\* bindings and the Path bounds of ImplTrait/DynTrait too), each node
\* before any node it owns; the number of callbacks is the number of
\* TypeRef nodes of the tree.
C3_TraversalComplete ==
    Walked =>
        LET root == call.arg
            n == Len(visited)
        IN  /\ n >= 1
            /\ visited[1] = [at |-> << >>, type_ref |-> root]
            /\ \A i \in 1..n :
                  visited[i].type_ref = Resolve(root, visited[i].at)
            /\ {visited[i].at : i \in 1..n} = Positions(root)
            /\ n = Cardinality(Positions(root))
            /\ \A i, j \in 1..n :
                  i < j => ~IsProperPrefix(visited[j].at, visited[i].at)

\* C3 witness: a trait-object type whose bounds hold paths with nested
\* types has been walked.
C3_Witness ==
    /\ Walked
    /\ call.arg.tag = "DynTrait"
    /\ Len(visited) >= 4
    /\ \E i \in 1..Len(visited) :
          Len(visited[i].at) >= 4 /\ visited[i].at[1].field = "bounds"

\* C4: the callbacks come in declaration order: under a Path, the whole
\* subtree of the type anchor, then segment by segment the type arguments
\* in order followed by the binding types in order; the elements of Fn and
\* Tuple and the bounds of ImplTrait/DynTrait in payload order; an Error
\* bound produces no callback.
C4_TraversalOrder ==
    Walked =>
        LET root == call.arg
            n == Len(visited)
        IN  /\ \A i, j \in 1..n :
                  i < j => DeclaredBefore(visited[i].at, visited[j].at)
            /\ \A i \in 1..n : \A k \in 1..Len(visited[i].at) :
                  LET at == visited[i].at
                  IN  at[k].field = "bounds" =>
                        Resolve(root, SubSeq(at, 1, k - 1))
                            .bounds[at[k].index].bound = "Path"
            /\ root.tag \in {"ImplTrait", "DynTrait"}
               /\ (\A b \in 1..Len(root.bounds) : root.bounds[b] = BoundError)
               => n = 1

\* C4 witness: a path with a type anchor and a later segment holding both
\* a type argument and a binding has been walked, the anchor first.
C4_Witness ==
    /\ Walked
    /\ call.arg.tag = "Path"
    /\ call.arg.path.type_anchor # None
    /\ Len(call.arg.path.segments) = 2
    /\ call.arg.path.segments[2].args_and_bindings # None
    /\ Len(call.arg.path.segments[2].args_and_bindings[1].args) >= 1
    /\ Len(call.arg.path.segments[2].args_and_bindings[1].bindings) >= 1
    /\ visited[2].at = <<Step("path", 0), Step("type_anchor", 0)>>
    /\ visited[Len(visited)].at[2] = Step("segments", 2)
    /\ visited[Len(visited)].at[3].field = "bindings"

=============================================================================
